---------------------------- MODULE Spec2Model ----------------------------
(***************************************************************************)
(* Query transformers of swirl/processors/transform_query_processor.py:    *)
(* the shared configuration parser (AbstractTransformQueryProcessor) and   *)
(* the Rewrite, Synonym and Bag variants.                                  *)
(*                                                                         *)
(* A Python str is a sequence of one-character strings; a list is a        *)
(* sequence.  The configuration is what csv.reader yields for the text:    *)
(* a sequence of rows, each a sequence of fields, or the point where the   *)
(* reader raises csv.Error.                                                *)
(***************************************************************************)
EXTENDS Integers, Sequences, FiniteSets

VARIABLES
    qxf_type,          \* variant chosen by the factory: "rewrite", "synonym", "bag"
    query_string,      \* self.query_string
    _config,           \* self._config, as the rows csv.reader yields
    _config_parsed,    \* self._config_parsed
    replace_patterns,  \* self.replace_patterns: list of _ConfigReplacePattern
    replace_index,     \* self.replace_index: dict in insertion order, key -> entry
    ret,               \* value returned by the last process() call
    ret_toks,          \* Synonym process(): ret_toks when the scan loop ended
    n_q_toks_processed,\* Synonym process(): n_q_toks_processed when the loop ended
    n_process,         \* number of process() calls that have returned
    n_parse_config,    \* number of parse_config() calls made by the caller
    n_parsed,          \* number of times parse_config() read the configuration
    raised             \* an exception escaped from the last call

vars == << qxf_type, query_string, _config, _config_parsed, replace_patterns,
           replace_index, ret, ret_toks, n_q_toks_processed, n_process,
           n_parse_config, n_parsed, raised >>

----------------------------------------------------------------------------
(* Bounds of the model. *)

MaxRows == 3         \* rows of a configuration (general specification)
MaxTypedRows == 2    \* rows of a configuration (per-variant specifications)
MaxQueryToks == 2    \* tokens of a Rewrite query
MaxSynToks == 3      \* tokens of a Synonym query
MaxCalls == 2        \* calls made on one instance

----------------------------------------------------------------------------
(* Python str and list built-ins used by the source. *)

Letters == {"a","b","c","d","e","f","g","h","i","j","k","l","m",
            "n","o","p","q","r","s","t","u","v","w","x","y","z"}

isspace(c) == c = " "

RECURSIVE lstrip(_)
lstrip(s) == IF s # <<>> /\ isspace(Head(s)) THEN lstrip(Tail(s)) ELSE s

RECURSIVE rstrip(_)
rstrip(s) ==
    IF s # <<>> /\ isspace(s[Len(s)]) THEN rstrip(SubSeq(s, 1, Len(s) - 1)) ELSE s

\* str.strip()
strip(s) == rstrip(lstrip(s))

\* index of the first element of s satisfying c = ch, or Len(s) + 1
RECURSIVE find(_, _, _)
find(s, ch, i) ==
    IF i > Len(s) THEN i ELSE IF s[i] = ch THEN i ELSE find(s, ch, i + 1)

\* str.split(sep) for a one-character sep: empty pieces are kept
RECURSIVE split_sep(_, _)
split_sep(s, sep) ==
    LET k == find(s, sep, 1)
    IN  IF k > Len(s) THEN << s >>
        ELSE << SubSeq(s, 1, k - 1) >> \o split_sep(SubSeq(s, k + 1, Len(s)), sep)

\* str.split(): pieces between runs of whitespace, no empty piece
RECURSIVE split(_)
split(s) ==
    LET t == lstrip(s)
        k == find(t, " ", 1)
    IN  IF t = <<>> THEN <<>>
        ELSE << SubSeq(t, 1, k - 1) >> \o split(SubSeq(t, k, Len(t)))

\* sep.join(xs)
RECURSIVE join(_, _)
join(sep, xs) ==
    IF xs = <<>> THEN <<>>
    ELSE IF Len(xs) = 1 THEN xs[1]
    ELSE xs[1] \o sep \o join(sep, Tail(xs))

----------------------------------------------------------------------------
(* re.sub for the patterns the source builds: literal characters, \b and   *)
(* \s? (and \s).                                                           *)

Lit(c) == [kind |-> "lit", ch |-> c]
WordBoundary == [kind |-> "wordb", ch |-> ""]
OptSpace == [kind |-> "optspace", ch |-> ""]
Space == [kind |-> "space", ch |-> ""]

\* the pattern string parsed into atoms
RECURSIVE re_compile(_)
re_compile(p) ==
    IF p = <<>> THEN <<>>
    ELSE IF p[1] = "\\" /\ Len(p) >= 2 /\ p[2] = "b"
        THEN << WordBoundary >> \o re_compile(SubSeq(p, 3, Len(p)))
    ELSE IF p[1] = "\\" /\ Len(p) >= 3 /\ p[2] = "s" /\ p[3] = "?"
        THEN << OptSpace >> \o re_compile(SubSeq(p, 4, Len(p)))
    ELSE IF p[1] = "\\" /\ Len(p) >= 2 /\ p[2] = "s"
        THEN << Space >> \o re_compile(SubSeq(p, 3, Len(p)))
    ELSE << Lit(p[1]) >> \o re_compile(Tail(p))

isword(s, i) == i >= 1 /\ i <= Len(s) /\ s[i] \in Letters

\* \b between s[i] and s[i+1]
at_boundary(s, i) == isword(s, i) # isword(s, i + 1)

\* atoms a[j..] matched against s from offset i: the end offset, or -1
RECURSIVE re_match(_, _, _, _)
re_match(a, j, s, i) ==
    IF j > Len(a) THEN i
    ELSE IF a[j].kind = "lit"
        THEN IF i < Len(s) /\ s[i + 1] = a[j].ch
             THEN re_match(a, j + 1, s, i + 1) ELSE -1
    ELSE IF a[j].kind = "wordb"
        THEN IF at_boundary(s, i) THEN re_match(a, j + 1, s, i) ELSE -1
    ELSE IF a[j].kind = "space"
        THEN IF i < Len(s) /\ isspace(s[i + 1])
             THEN re_match(a, j + 1, s, i + 1) ELSE -1
    ELSE \* optspace: greedy, then without the space
        IF i < Len(s) /\ isspace(s[i + 1])
        THEN LET r == re_match(a, j + 1, s, i + 1)
             IN  IF r # -1 THEN r ELSE re_match(a, j + 1, s, i)
        ELSE re_match(a, j + 1, s, i)

\* the replaced text of s from offset pos on: leftmost non-overlapping
\* matches, an empty match replaced and the next character copied
RECURSIVE sub_from(_, _, _, _)
sub_from(a, repl, s, pos) ==
    IF pos > Len(s) THEN <<>>
    ELSE LET e == re_match(a, 1, s, pos)
             copy == IF pos < Len(s)
                     THEN << s[pos + 1] >> \o sub_from(a, repl, s, pos + 1)
                     ELSE <<>>
         IN  IF e = -1 THEN copy
             ELSE IF e = pos THEN repl \o copy
             ELSE repl \o sub_from(a, repl, s, e)

\* re.sub(pattern, repl, s)
re_sub(pattern, repl, s) == sub_from(re_compile(pattern), repl, s, 0)

----------------------------------------------------------------------------
(* Collaborators of swirl.processors.utils, described by the specification. *)

\* clean_string: whitespace normalised
clean_string(s) == join(<< " " >>, split(s))

\* str_tok_get_prefixes: the candidate phrases, per start position in
\* decreasing length
RECURSIVE prefixes_from(_, _, _)
prefixes_from(toks, i, j) ==
    IF i > Len(toks) THEN <<>>
    ELSE IF j < i THEN prefixes_from(toks, i + 1, Len(toks))
    ELSE << join(<< " " >>, SubSeq(toks, i, j)) >> \o prefixes_from(toks, i, j - 1)

str_tok_get_prefixes(toks) == prefixes_from(toks, 1, Len(toks))

----------------------------------------------------------------------------
(* _ConfigReplacePattern and the two tables. *)

_ConfigReplacePattern(pat, rep) == [pattern |-> pat, replace |-> rep]

\* position of key in the dict, 0 when absent
RECURSIVE index_of(_, _, _)
index_of(index, key, i) ==
    IF i > Len(index) THEN 0
    ELSE IF index[i].key = key THEN i
    ELSE index_of(index, key, i + 1)

\* dict.get(key, None) is not None
has_key(index, key) == index_of(index, key, 1) # 0

\* dict[key]
entry_of(index, key) == index[index_of(index, key, 1)].entry

\* dict[key] = entry for a key not yet in the dict
set_item(index, key, entry) == Append(index, [key |-> key, entry |-> entry])

\* dict.values()
values(index) == [i \in 1..Len(index) |-> index[i].entry]

\* the rule table of an instance
Table(patterns, index) == [patterns |-> patterns, index |-> index]

----------------------------------------------------------------------------
(* AbstractTransformQueryProcessor: reading the configuration. *)

Row(fields) == [err |-> FALSE, fields |-> fields]
CsvError == [err |-> TRUE, fields |-> <<>>]
NoLine == [some |-> FALSE, fields |-> <<>>, at |-> 0]

\* _config_next_line with `continue` turned into a return: a blank or comment
\* row ends the reading
RECURSIVE _config_next_line_stops(_, _)
_config_next_line_stops(csv_reader, i) ==
    IF i > Len(csv_reader) THEN NoLine
    ELSE IF csv_reader[i].err THEN NoLine
    ELSE LET r == csv_reader[i].fields
         IN  IF Len(r) = 0 \/ Len(r[1]) = 0 \/ r[1][1] = "#"
             THEN NoLine
             ELSE [some |-> TRUE, fields |-> r, at |-> i + 1]

\* the next row that is neither blank nor a comment, read from position i of
\* the reader; no line at the end of the rows or when the reader raises
RECURSIVE _config_next_line(_, _)
_config_next_line(csv_reader, i) ==
    IF i > Len(csv_reader) THEN NoLine
    ELSE IF csv_reader[i].err THEN NoLine
    ELSE LET r == csv_reader[i].fields
         IN  IF Len(r) = 0 \/ Len(r[1]) = 0 \/ r[1][1] = "#"
             THEN _config_next_line(csv_reader, i + 1)
             ELSE [some |-> TRUE, fields |-> r, at |-> i + 1]

\* min_num_cols = 0 stands for None
_cline_is_valid(cline, min_num_cols) ==
    IF Len(cline) = 0 THEN FALSE
    ELSE IF min_num_cols # 0 /\ Len(cline) < min_num_cols THEN FALSE
    ELSE TRUE

_get_synonyms(index, word) ==
    IF Len(index) = 0 THEN <<>>
    ELSE IF ~has_key(index, word) THEN <<>>
    ELSE entry_of(index, word).replace

----------------------------------------------------------------------------
(* _parse_cline of the three variants: the table after one row. *)

Rewrite_parse_cline(table, cline) ==
    IF ~_cline_is_valid(cline, 1) THEN table
    ELSE LET pats == IF Len(cline) = 1
                     THEN << "\\", "b" >> \o cline[1] \o << "\\", "b", "\\", "s", "?" >>
                     ELSE cline[1]
             repl == IF Len(cline) = 1 THEN <<>> ELSE cline[2]
             ps   == split_sep(pats, ";")
         IN  Table(table.patterns \o
                     [k \in 1..Len(ps) |->
                         _ConfigReplacePattern(strip(ps[k]), << strip(repl) >>)],
                   table.index)

Synonym_parse_cline(table, cline) ==
    IF ~_cline_is_valid(cline, 2) THEN table
    ELSE LET word        == strip(cline[1])
             tmp_toks    == split(word)
             normal_word == join(<< " " >>, tmp_toks)
             repl        == strip(cline[2])
             at          == index_of(table.index, word, 1)
         IN  IF at = 0
             THEN Table(table.patterns,
                        set_item(table.index, word,
                                 _ConfigReplacePattern(normal_word, << repl >>)))
             ELSE Table(table.patterns,
                        [table.index EXCEPT
                            ![at].entry.replace = Append(@, repl)])

\* the loop over the words of one row with the `continue` lost: a word
\* already in the table is registered again with the later row
RECURSIVE bag_words_overwrite(_, _, _)
bag_words_overwrite(index, s_cline, k) ==
    IF k > Len(s_cline) THEN index
    ELSE IF has_key(index, s_cline[k])
    THEN bag_words_overwrite(
             [index EXCEPT ![index_of(index, s_cline[k], 1)].entry =
                               _ConfigReplacePattern(s_cline[k], s_cline)],
             s_cline, k + 1)
    ELSE bag_words_overwrite(set_item(index, s_cline[k],
                                      _ConfigReplacePattern(s_cline[k], s_cline)),
                             s_cline, k + 1)

\* the loop over the words of one row
RECURSIVE bag_words(_, _, _)
bag_words(index, s_cline, k) ==
    IF k > Len(s_cline) THEN index
    ELSE IF has_key(index, s_cline[k]) THEN bag_words(index, s_cline, k + 1)
    ELSE bag_words(set_item(index, s_cline[k],
                            _ConfigReplacePattern(s_cline[k], s_cline)),
                   s_cline, k + 1)

Bag_parse_cline(table, cline) ==
    IF ~_cline_is_valid(cline, 0) THEN table
    ELSE LET s_cline == [k \in 1..Len(cline) |-> strip(cline[k])]
         IN  Table(table.patterns, bag_words(table.index, s_cline, 1))

_parse_cline(type, table, cline) ==
    IF type = "rewrite" THEN Rewrite_parse_cline(table, cline)
    ELSE IF type = "synonym" THEN Synonym_parse_cline(table, cline)
    ELSE Bag_parse_cline(table, cline)

\* the while loop of parse_config from reader position i
RECURSIVE parse_lines(_, _, _, _)
parse_lines(type, table, conf_lines, i) ==
    LET cline == _config_next_line(conf_lines, i)
    IN  IF ~cline.some THEN table
        ELSE parse_lines(type, _parse_cline(type, table, cline.fields),
                         conf_lines, cline.at)

\* parse_config(): [parsed, table, reads] after the call.  _config_start
\* always hands back a reader for a str configuration (constructing csv.reader
\* reads nothing and the reader object is truthy), so the early return on a
\* missing reader is never taken; the row ordinal n only feeds the log.
parse_config(type, parsed, table, config, reads) ==
    IF parsed THEN [parsed |-> parsed, table |-> table, reads |-> reads]
    ELSE [parsed |-> TRUE,
          table  |-> parse_lines(type, table, config, 1),
          reads  |-> reads + 1]

get_replace_patterns(type, table) ==
    IF type = "rewrite" THEN table.patterns ELSE values(table.index)

----------------------------------------------------------------------------
(* process() of the three variants, after parse_config(). *)

\* the for loop of Rewrite process() walking the table from its end
RECURSIVE rewrite_loop_reversed(_, _, _)
rewrite_loop_reversed(patterns, k, r) ==
    IF k > Len(patterns) THEN r
    ELSE LET rp == patterns[Len(patterns) + 1 - k]
         IN  rewrite_loop_reversed(patterns, k + 1,
                                   re_sub(rp.pattern, rp.replace[1], r))

\* the for loop of Rewrite process() from rule k on
RECURSIVE rewrite_loop(_, _, _)
rewrite_loop(patterns, k, r) ==
    IF k > Len(patterns) THEN r
    ELSE rewrite_loop(patterns, k + 1,
                      re_sub(patterns[k].pattern, patterns[k].replace[1], r))

Rewrite_process(patterns, query) ==
    LET r == strip(clean_string(query))
    IN  IF r = <<>> THEN r ELSE rewrite_loop(patterns, 1, r)

or_group(p_str, syns) ==
    << "(" >> \o join(<< " ", "O", "R", " " >>, << p_str >> \o syns) \o << ")" >>

\* the while loop of Synonym process(); index_p_str counts from 1
RECURSIVE synonym_loop(_, _, _, _, _, _)
synonym_loop(index, prfx_strs, q_len, index_p_str, n, toks) ==
    IF ~(n < q_len)
    THEN [ret_toks |-> toks, n_q_toks_processed |-> n, raised |-> FALSE]
    ELSE IF index_p_str > Len(prfx_strs)
    THEN [ret_toks |-> toks, n_q_toks_processed |-> n, raised |-> TRUE]
    ELSE LET p_str     == prfx_strs[index_p_str]
             p_str_len == Len(split(p_str))
             syns      == _get_synonyms(index, p_str)
         IN  IF syns # <<>>
             THEN synonym_loop(index, prfx_strs, q_len, index_p_str + 1,
                               n + p_str_len, Append(toks, or_group(p_str, syns)))
             ELSE IF p_str_len = 1
             THEN synonym_loop(index, prfx_strs, q_len, index_p_str + 1,
                               n + 1, Append(toks, p_str))
             ELSE synonym_loop(index, prfx_strs, q_len, index_p_str + 1, n, toks)

\* [ret, ret_toks, n_q_toks_processed, raised] of Synonym process()
Synonym_process(index, query) ==
    LET r == strip(clean_string(query))
        q_toks == split(r)
        scan == synonym_loop(index, str_tok_get_prefixes(q_toks), Len(q_toks),
                             1, 0, <<>>)
    IN  IF r = <<>>
        THEN [ret |-> r, ret_toks |-> <<>>, n_q_toks_processed |-> 0,
              raised |-> FALSE]
        ELSE [ret |-> join(<< " " >>, scan.ret_toks), ret_toks |-> scan.ret_toks,
              n_q_toks_processed |-> scan.n_q_toks_processed,
              raised |-> scan.raised]

Bag_process(query) == strip(clean_string(query))

----------------------------------------------------------------------------
(* The calls a caller makes on one instance. *)

CanCall == n_process + n_parse_config < MaxCalls

\* instance.parse_config()
ParseConfig ==
    /\ CanCall
    /\ LET p == parse_config(qxf_type, _config_parsed,
                             Table(replace_patterns, replace_index),
                             _config, n_parsed)
       IN  /\ _config_parsed' = p.parsed
           /\ replace_patterns' = p.table.patterns
           /\ replace_index' = p.table.index
           /\ n_parsed' = p.reads
    /\ n_parse_config' = n_parse_config + 1
    /\ raised' = FALSE
    /\ UNCHANGED << qxf_type, query_string, _config, ret, ret_toks,
                    n_q_toks_processed, n_process >>

\* RewriteQueryProcessor.process()
RewriteProcess ==
    /\ CanCall
    /\ qxf_type = "rewrite"
    /\ LET p == parse_config(qxf_type, _config_parsed,
                             Table(replace_patterns, replace_index),
                             _config, n_parsed)
       IN  /\ _config_parsed' = p.parsed
           /\ replace_patterns' = p.table.patterns
           /\ replace_index' = p.table.index
           /\ n_parsed' = p.reads
           /\ ret' = Rewrite_process(p.table.patterns, query_string)
    /\ n_process' = n_process + 1
    /\ raised' = FALSE
    /\ UNCHANGED << qxf_type, query_string, _config, ret_toks,
                    n_q_toks_processed, n_parse_config >>

\* SynonymQueryProcessor.process()
SynonymProcess ==
    /\ CanCall
    /\ qxf_type = "synonym"
    /\ LET p == parse_config(qxf_type, _config_parsed,
                             Table(replace_patterns, replace_index),
                             _config, n_parsed)
           r == Synonym_process(p.table.index, query_string)
       IN  /\ _config_parsed' = p.parsed
           /\ replace_patterns' = p.table.patterns
           /\ replace_index' = p.table.index
           /\ n_parsed' = p.reads
           /\ ret' = r.ret
           /\ ret_toks' = r.ret_toks
           /\ n_q_toks_processed' = r.n_q_toks_processed
           /\ raised' = r.raised
    /\ n_process' = n_process + 1
    /\ UNCHANGED << qxf_type, query_string, _config, n_parse_config >>

\* SynonymBagQueryProcessor.process()
BagProcess ==
    /\ CanCall
    /\ qxf_type = "bag"
    /\ ret' = Bag_process(query_string)
    /\ n_process' = n_process + 1
    /\ raised' = FALSE
    /\ UNCHANGED << qxf_type, query_string, _config, _config_parsed,
                    replace_patterns, replace_index, ret_toks,
                    n_q_toks_processed, n_parse_config, n_parsed >>

----------------------------------------------------------------------------
(* Inputs. *)

w_cat == << "c", "a", "t" >>
w_dog == << "d", "o", "g" >>
w_fish == << "f", "i", "s", "h" >>
w_the == << "t", "h", "e" >>
w_theme == << "t", "h", "e", "m", "e" >>
w_new == << "n", "e", "w" >>
w_york == << "y", "o", "r", "k" >>
w_city == << "c", "i", "t", "y" >>
w_ny == << "n", "y" >>
w_red == << "r", "e", "d" >>
w_pink == << "p", "i", "n", "k" >>
w_scarlet == << "s", "c", "a", "r", "l", "e", "t" >>
w_crimson == << "c", "r", "i", "m", "s", "o", "n" >>

\* every list of at most n elements of S
SeqsUpTo(S, n) == UNION { [1..k -> S] : k \in 0..n }

\* queries of at most n words of W, with and without leading whitespace
QueriesOf(W, n) ==
    { lead \o join(<< " " >>, t) : lead \in { <<>>, << " " >> }, t \in SeqsUpTo(W, n) }

\* rows of every kind: blank, comment, empty first field, one field, two fields,
\* and the reader raising
GeneralRows ==
    { Row(<<>>), Row(<< << "#", "c" >> >>), Row(<< <<>>, w_dog >>),
      Row(<< w_cat >>), Row(<< w_cat, w_dog >>), Row(<< w_dog, w_fish >>),
      CsvError }

RewriteRows ==
    { Row(<< w_cat, w_dog >>), Row(<< w_dog, w_fish >>), Row(<< w_the >>),
      Row(<< w_the \o << ";" >> \o w_cat >>),
      Row(<< w_dog \o << ";", " ", "d", "o" >>, w_cat >>) }

SynonymRows ==
    { Row(<< w_new \o << " " >> \o w_york, w_ny >>),
      Row(<< w_new \o << " ", " " >> \o w_york, w_ny \o << "c" >> >>),
      Row(<< w_york, << "y", "k" >> >>),
      Row(<< w_new, << "n", "u" >> >>) }

BagRows ==
    { Row(<< w_red, w_scarlet, w_crimson >>), Row(<< w_red, w_pink >>),
      Row(<< w_pink, w_scarlet >>), Row(<< << " " >> \o w_pink, w_red, w_red >>),
      Row(<< << "#" >> \o w_red, w_pink >>) }

\* the state after the factory has constructed the instance
InitWith(types, configs, queries) ==
    /\ qxf_type \in types
    /\ _config \in configs
    /\ query_string \in queries
    /\ _config_parsed = FALSE
    /\ replace_patterns = <<>>
    /\ replace_index = <<>>
    /\ ret = <<>>
    /\ ret_toks = <<>>
    /\ n_q_toks_processed = 0
    /\ n_process = 0
    /\ n_parse_config = 0
    /\ n_parsed = 0
    /\ raised = FALSE

Init ==
    InitWith({ "rewrite", "synonym", "bag" }, SeqsUpTo(GeneralRows, MaxRows),
             { <<>>, w_cat })

Next == ParseConfig \/ RewriteProcess \/ SynonymProcess \/ BagProcess

Spec == Init /\ [][Next]_vars

InitRewrite ==
    InitWith({ "rewrite" }, SeqsUpTo(RewriteRows, MaxTypedRows),
             QueriesOf({ w_cat, w_the, w_theme }, MaxQueryToks))

NextRewrite == ParseConfig \/ RewriteProcess

SpecRewrite == InitRewrite /\ [][NextRewrite]_vars

InitSynonym ==
    InitWith({ "synonym" }, SeqsUpTo(SynonymRows, MaxTypedRows),
             QueriesOf({ w_new, w_york, w_city }, MaxSynToks))

NextSynonym == ParseConfig \/ SynonymProcess

SpecSynonym == InitSynonym /\ [][NextSynonym]_vars

InitBag ==
    InitWith({ "bag" }, SeqsUpTo(BagRows, MaxTypedRows), { <<>>, w_red })

NextBag == ParseConfig \/ BagProcess

SpecBag == InitBag /\ [][NextBag]_vars

----------------------------------------------------------------------------
(* Vocabulary of the properties. *)

EmptyTable == Table(<<>>, <<>>)
TheTable == Table(replace_patterns, replace_index)
Cleaned == strip(clean_string(query_string))
Calls == n_process + n_parse_config

\* the rows the reader yields before it raises, if it does
RECURSIVE ReadableRows(_)
ReadableRows(config) ==
    IF config = <<>> \/ Head(config).err THEN <<>>
    ELSE << Head(config) >> \o ReadableRows(Tail(config))

IsBlankOrComment(row) ==
    \/ row.fields = <<>>
    \/ row.fields[1] = <<>>
    \/ row.fields[1][1] = "#"

MinCols(type) == IF type = "rewrite" THEN 1 ELSE IF type = "synonym" THEN 2 ELSE 0

IsValidRow(type, row) == ~IsBlankOrComment(row) /\ Len(row.fields) >= MinCols(type)

RECURSIVE ValidRows(_, _)
ValidRows(type, rows) ==
    IF rows = <<>> THEN <<>>
    ELSE (IF IsValidRow(type, Head(rows)) THEN << Head(rows) >> ELSE <<>>)
         \o ValidRows(type, Tail(rows))

----------------------------------------------------------------------------
(* Synonym process(): the scan. *)

\* the query text an output fragment stands for: the first alternative of an
\* OR-group (the text between "(" and the first " OR "), a literal token itself
Original(frag) ==
    IF frag # <<>> /\ frag[1] = "("
    THEN SubSeq(frag, 2, find(frag, "O", 1) - 2)
    ELSE frag

RECURSIVE OriginalToks(_)
OriginalToks(frags) ==
    IF frags = <<>> THEN <<>>
    ELSE split(Original(Head(frags))) \o OriginalToks(Tail(frags))

SynonymReturned == qxf_type = "synonym" /\ n_process > 0

\* C1: when Synonym process() has returned, every query token was consumed
\* exactly once: the scan ended with n_q_toks_processed equal to the number of
\* query tokens, and the output fragments, each reduced to its original text,
\* concatenate in order to the query's token sequence.
C1_EachTokenConsumedOnce ==
    SynonymReturned =>
        /\ ~raised
        /\ n_q_toks_processed = Len(split(Cleaned))
        /\ OriginalToks(ret_toks) = split(Cleaned)

\* the length of the longest phrase of at most L words starting at token pos
\* that has synonyms in the table, 0 when there is none
RECURSIVE LongestKeyLen(_, _, _, _)
LongestKeyLen(index, toks, pos, L) ==
    IF L = 0 THEN 0
    ELSE IF _get_synonyms(index, join(<< " " >>, SubSeq(toks, pos, pos + L - 1))) # <<>>
    THEN L
    ELSE LongestKeyLen(index, toks, pos, L - 1)

\* the fragments of a longest-match-first scan from token pos on
RECURSIVE LongestFirstFragments(_, _, _)
LongestFirstFragments(index, toks, pos) ==
    IF pos > Len(toks) THEN <<>>
    ELSE LET L == LongestKeyLen(index, toks, pos, Len(toks) - pos + 1)
             phrase == join(<< " " >>, SubSeq(toks, pos, pos + L - 1))
         IN  IF L = 0
             THEN << toks[pos] >> \o LongestFirstFragments(index, toks, pos + 1)
             ELSE << or_group(phrase, _get_synonyms(index, phrase)) >>
                  \o LongestFirstFragments(index, toks, pos + L)

\* C2: Synonym process() is longest-match-first: at every scan position the
\* OR-group emitted is the one of the longest phrase starting there that is a
\* key of the table, shorter keys starting there are not emitted, and tokens
\* starting no key are emitted literally ('new york city' with keys 'new york'
\* and 'york' gives the group of 'new york', then 'city').
C2_LongestMatchFirst ==
    SynonymReturned =>
        ret_toks = LongestFirstFragments(replace_index, split(Cleaned), 1)

\* whitespace collapsed to single spaces
Collapsed(phrase) == join(<< " " >>, split(phrase))

\* the trimmed replacements of the rows whose phrase collapses to key, in row order
RECURSIVE ReplacementsFor(_, _)
ReplacementsFor(key, rows) ==
    IF rows = <<>> THEN <<>>
    ELSE (IF Collapsed(Head(rows).fields[1]) = key
          THEN << strip(Head(rows).fields[2]) >> ELSE <<>>)
         \o ReplacementsFor(key, Tail(rows))

\* C5: after parsing, the synonym table is keyed by the whitespace-collapsed
\* phrase: every key is its own collapsed form, and looking up the collapsed
\* phrase of any valid row gives the replacements of all rows with that
\* collapsed phrase, in row order (one entry per collapsed phrase).
C5_KeyIsCollapsedPhrase ==
    (qxf_type = "synonym" /\ n_parsed > 0) =>
        LET rows == ValidRows("synonym", ReadableRows(_config))
        IN  /\ \A i \in 1..Len(replace_index) :
                    replace_index[i].key = Collapsed(replace_index[i].key)
            /\ \A i \in 1..Len(rows) :
                    _get_synonyms(replace_index, Collapsed(rows[i].fields[1]))
                        = ReplacementsFor(Collapsed(rows[i].fields[1]), rows)

----------------------------------------------------------------------------
(* Lazy parsing. *)

\* C3: parsing is idempotent per instance: once two or more process() or
\* parse_config() calls have been made the configuration has been read exactly
\* once, no call after the first changes the rule table, and the parsed flag,
\* once true, never becomes false.
C3_ParsedExactlyOnce ==
    /\ [](Calls >= 2 => n_parsed = 1)
    /\ [][Calls >= 1 => /\ replace_patterns' = replace_patterns
                        /\ replace_index' = replace_index
                        /\ (_config_parsed => _config_parsed')]_vars

\* C4: for every variant, when the first process() call has returned the
\* instance is Parsed and get_replace_patterns() returns the entries the
\* configuration defines.
C4_FirstProcessParses ==
    n_process > 0 =>
        /\ _config_parsed
        /\ get_replace_patterns(qxf_type, TheTable)
             = get_replace_patterns(qxf_type,
                                    parse_lines(qxf_type, EmptyTable, _config, 1))

HasCsvError(config) == \E i \in 1..Len(config) : config[i].err

\* C6: when the reader raises csv.Error, before the first row or after some
\* rows, no error reaches the caller of process(), the rule table is empty and
\* process() returns the cleaned query unchanged.
C6_CsvErrorGivesEmptyTable ==
    (n_process > 0 /\ HasCsvError(_config)) =>
        /\ ~raised
        /\ replace_patterns = <<>>
        /\ replace_index = <<>>
        /\ ret = Cleaned

----------------------------------------------------------------------------
(* Bag parsing. *)

\* the Bag table after the first k rows of the configuration
BagIndexAfter(k) == parse_lines("bag", EmptyTable, SubSeq(_config, 1, k), 1).index

\* the trimmed member list of a row
Members(row) == [k \in 1..Len(row.fields) |-> strip(row.fields[k])]

IsMember(word, row) == \E k \in 1..Len(row.fields) : strip(row.fields[k]) = word

\* C7: Bag first-wins: a word registered while parsing some row keeps, after
\* every later row, the entry it was registered with, and that entry is the
\* full trimmed member list of the first row holding the word (rows
\* 'red,scarlet,crimson' then 'red,pink' leave red with [red, scarlet,
\* crimson] and give pink [red, pink]).
C7_BagFirstWins ==
    (qxf_type = "bag" /\ n_parsed > 0) =>
        /\ \A k \in 0..Len(_config) :
             LET before == BagIndexAfter(k)
             IN  \A i \in 1..Len(before) :
                    /\ has_key(replace_index, before[i].key)
                    /\ entry_of(replace_index, before[i].key) = before[i].entry
        /\ LET rows == ValidRows("bag", ReadableRows(_config))
           IN  /\ \A i \in 1..Len(replace_index) :
                    \E r \in 1..Len(rows) :
                       /\ IsMember(replace_index[i].key, rows[r])
                       /\ \A q \in 1..(r - 1) : ~IsMember(replace_index[i].key, rows[q])
                       /\ replace_index[i].entry
                            = _ConfigReplacePattern(replace_index[i].key,
                                                    Members(rows[r]))
               /\ \A r \in 1..Len(rows) : \A k \in 1..Len(rows[r].fields) :
                    has_key(replace_index, strip(rows[r].fields[k]))

\* rows 'red,scarlet,crimson' then 'red,pink' have been parsed: red keeps the
\* first row's members and pink has the second row's
C7_Witness ==
    /\ qxf_type = "bag"
    /\ n_parsed = 1
    /\ _config = << Row(<< w_red, w_scarlet, w_crimson >>), Row(<< w_red, w_pink >>) >>
    /\ entry_of(replace_index, w_red).replace = << w_red, w_scarlet, w_crimson >>
    /\ entry_of(replace_index, w_pink).replace = << w_red, w_pink >>

----------------------------------------------------------------------------
(* Rewrite. *)

\* rules[1..n] applied one after the other, each to the result of the one before
RECURSIVE AppliedInOrder(_, _, _)
AppliedInOrder(rules, n, text) ==
    IF n = 0 THEN text
    ELSE re_sub(rules[n].pattern, rules[n].replace[1],
                AppliedInOrder(rules, n - 1, text))

\* the rules of the rows, row after row
RECURSIVE RulesOfRows(_)
RulesOfRows(rows) ==
    IF rows = <<>> THEN <<>>
    ELSE Rewrite_parse_cline(EmptyTable, Head(rows).fields).patterns
         \o RulesOfRows(Tail(rows))

\* C8: Rewrite process() applies the rules in table order, each to the output
\* of the previous one; the table is in configuration row order and, within a
\* two-field row, in the order of the ;-separated sub-patterns; rules
\* [cat -> dog, dog -> fish] turn 'cat' into 'fish'; an empty cleaned query
\* is returned as it is.
C8_RulesAppliedInTableOrder ==
    (qxf_type = "rewrite" /\ n_process > 0) =>
        /\ replace_patterns = RulesOfRows(ValidRows("rewrite", ReadableRows(_config)))
        /\ \A r \in 1..Len(_config) :
             Len(_config[r].fields) = 2 =>
                LET subs  == split_sep(_config[r].fields[1], ";")
                    rules == Rewrite_parse_cline(EmptyTable, _config[r].fields).patterns
                IN  rules = [k \in 1..Len(subs) |->
                                _ConfigReplacePattern(strip(subs[k]),
                                    << strip(_config[r].fields[2]) >>)]
        /\ ret = IF Cleaned = <<>> THEN <<>>
                 ELSE AppliedInOrder(replace_patterns, Len(replace_patterns), Cleaned)
        /\ (/\ _config = << Row(<< w_cat, w_dog >>), Row(<< w_dog, w_fish >>) >>
            /\ Cleaned = w_cat) => ret = w_fish

\* process() has returned 'fish' for the query 'cat' under the rules
\* cat -> dog, dog -> fish
C8_Witness ==
    /\ qxf_type = "rewrite"
    /\ n_process > 0
    /\ _config = << Row(<< w_cat, w_dog >>), Row(<< w_dog, w_fish >>) >>
    /\ query_string = w_cat
    /\ ret = w_fish

\* text without the tokens equal to word
RECURSIVE WithoutWord(_, _)
WithoutWord(toks, word) ==
    IF toks = <<>> THEN <<>>
    ELSE (IF Head(toks) = word THEN <<>> ELSE << Head(toks) >>)
         \o WithoutWord(Tail(toks), word)

\* C9: every rule of a single-field Rewrite row, one per ;-separated word of
\* the field, has the empty replacement and deletes exactly the whole-word
\* occurrences of its word: applied to the cleaned query it leaves the tokens
\* that differ from the word, each unchanged.
C9_SingleFieldDeletesWholeWords ==
    (qxf_type = "rewrite" /\ n_parsed > 0) =>
        \A r \in 1..Len(_config) :
            Len(_config[r].fields) = 1 =>
                LET words == split_sep(_config[r].fields[1], ";")
                    rules == Rewrite_parse_cline(EmptyTable, _config[r].fields).patterns
                IN  /\ Len(rules) = Len(words)
                    /\ \A k \in 1..Len(rules) :
                         /\ rules[k].replace = << <<>> >>
                         /\ split(re_sub(rules[k].pattern, rules[k].replace[1], Cleaned))
                              = WithoutWord(split(Cleaned), strip(words[k]))

============================================================================
